---- MODULE Spec2Model ----
(***************************************************************************)
(* A model of the farm backend (src/src/server.js): the telemetry          *)
(* ingestion handler, the last-known-state cache, the pump command         *)
(* endpoint with its auto-off timer registry, and process shutdown.        *)
(*                                                                         *)
(* server.js holds three revisions of the server, one after the other      *)
(* (lines 1-286, 288-595, 597-853).  `variant' says which one is running.  *)
(* Time is in milliseconds, as setTimeout counts it.                       *)
(***************************************************************************)
EXTENDS Integers, Sequences, FiniteSets, TLC

VARIABLES
    variant,        \* which revision of server.js is running: 1, 2 or 3
    alive,          \* the process has not exited
    closing,        \* gracefulShutdown has run (revision 1)
    link,           \* mqttClient: "connected", "offline" or "ended"
    now,            \* the server clock, ms
    timers,         \* every Timeout setTimeout returned, in creation order
    pumpTimers,     \* the Map pumpTimers: device id -> index into timers
    published,      \* the calls of mqttClient.publish, in order
    resp,           \* the HTTP response of the last /api/pump request
    ncmd,           \* how many /api/pump requests were handled
    handlers,       \* the invocations of the "message" handler, in delivery
                    \* order: each one's position and its local cleanData
    lastKnownState, \* the cache: <<>> for null, <<record>> otherwise
    emitted,        \* the calls of io.emit, in order
    history,        \* the documents the store has committed, in commit order
    warned,         \* the console.warn diagnostics of the handler, in order
    sockets         \* the viewers that connected, in order: for each, how many
                    \* io.emit calls preceded it and what socket.emit sent it

pumpVars == <<timers, pumpTimers, published, resp, ncmd>>
procVars == <<variant, alive, closing, link, now>>
ingestVars == <<handlers, lastKnownState, emitted, history, warned, sockets>>
vars == <<variant, alive, closing, link, now, timers, pumpTimers, published, resp, ncmd,
          handlers, lastKnownState, emitted, history, warned, sockets>>

-----------------------------------------------------------------------------
(* Bounds of the model *)

MaxCmds == 3
MaxMsgs == 3
MaxTicks == 1
ElapseStep == 30000
MaxViewers == 2

-----------------------------------------------------------------------------
(* JSON values as the handlers see them: a tagged record per value *)

JMissing == [t |-> "undefined", n |-> 0, b |-> FALSE, s |-> ""]
JNull == [t |-> "null", n |-> 0, b |-> FALSE, s |-> ""]
JNum(x) == [t |-> "number", n |-> x, b |-> FALSE, s |-> ""]
JBool(x) == [t |-> "boolean", n |-> 0, b |-> x, s |-> ""]
JStr(x) == [t |-> "string", n |-> 0, b |-> FALSE, s |-> x]

\* JavaScript truthiness of a JSON value (the test `duration' in `&& duration')
Truthy(v) ==
    CASE v.t = "number" -> v.n # 0
      [] v.t = "boolean" -> v.b
      [] v.t = "string" -> v.s # ""
      [] OTHER -> FALSE

\* action === "X": strict equality with a string literal
StrictEq(v, lit) == v.t = "string" /\ v.s = lit

Min(a, b) == IF a <= b THEN a ELSE b
Max(a, b) == IF a >= b THEN a ELSE b

-----------------------------------------------------------------------------
(* Program constants *)

NODE_ID == "node1"
TOPIC_DATA == "farm/node1/data"
TOPIC_CMD == "farm/node1/cmd"
CapSeconds == 3600
MsPerSecond == 1000

-----------------------------------------------------------------------------
(* One JavaScript thread: a handler runs to its end or to its await before
   any other callback starts.  An invocation of the "message" handler is in
   its synchronous part while its position is one of these. *)

SyncPositions == {"VALIDATED", "CACHED", "BROADCAST"}
\* Mutant: callbacks preempt one another
Idle_Preemptive == TRUE
Idle == \A n \in DOMAIN handlers : handlers[n].pos \notin SyncPositions

-----------------------------------------------------------------------------
(* Inputs of /api/pump *)

Actions == {JStr("ON"), JStr("OFF"), JStr("AUTO"), JStr("FOO"), JMissing}
Durations == {JMissing, JNum(0), JNum(-5), JNum(50), JNum(100), JNum(10000), JStr("abc")}

-----------------------------------------------------------------------------
(* The pump endpoint *)

\* Mutant: an unrecognised action falls through to the OFF command
MqttPayload_DefaultOff(action) ==
    IF StrictEq(action, "ON") THEN "PUMP_ON"
    ELSE IF StrictEq(action, "AUTO") THEN "AUTO"
    ELSE "PUMP_OFF"

\* Mutant: the strings of OFF and AUTO are exchanged
MqttPayload_Swapped(action) ==
    IF StrictEq(action, "ON") THEN "PUMP_ON"
    ELSE IF StrictEq(action, "OFF") THEN "AUTO"
    ELSE IF StrictEq(action, "AUTO") THEN "PUMP_OFF"
    ELSE ""

\* lines 224-228: the command string, "" when the action is not recognised
MqttPayload(action) ==
    IF StrictEq(action, "ON") THEN "PUMP_ON"
    ELSE IF StrictEq(action, "OFF") THEN "PUMP_OFF"
    ELSE IF StrictEq(action, "AUTO") THEN "AUTO"
    ELSE ""

\* One call of mqttClient.publish(topic, payload, opts): `by' is 0 for the
\* request handler and k for the callback of timers[k]; `at' is the time of the call.
PublishCall(payload, qos, by, at) ==
    [topic |-> TOPIC_CMD, payload |-> payload, qos |-> qos, by |-> by,
     at |-> at]

\* ToNumber(duration) as Math.min applies it; nan marks NaN
ToNumber(v) ==
    CASE v.t = "number" -> [nan |-> FALSE, v |-> v.n]
      [] v.t = "boolean" -> [nan |-> FALSE, v |-> IF v.b THEN 1 ELSE 0]
      [] v.t = "null" -> [nan |-> FALSE, v |-> 0]
      [] v.t = "string" /\ v.s = "" -> [nan |-> FALSE, v |-> 0]
      [] OTHER -> [nan |-> TRUE, v |-> 0]

\* Mutant: the one-hour cap is left out
DelayArg_NoCap(duration) ==
    LET d == ToNumber(duration)
    IN  IF d.nan THEN d ELSE [nan |-> FALSE, v |-> d.v * MsPerSecond]

\* Math.min(duration, 3600) * 1000, lines 242, 581, 840
DelayArg(duration) ==
    LET d == ToNumber(duration)
    IN  IF d.nan THEN d ELSE [nan |-> FALSE, v |-> Min(d.v, CapSeconds) * MsPerSecond]

\* The delay setTimeout gives the Timeout: NaN and anything below 1 become 1
TimeoutDelay(duration) ==
    LET a == DelayArg(duration)
    IN  IF a.nan \/ a.v < 1 THEN 1 ELSE a.v

\* Mutant: the duration is not tested
SchedulesTimer_AnyOn(action, duration) == StrictEq(action, "ON")

\* if (action === "ON" && duration), lines 233, 571, 830
SchedulesTimer(action, duration) == StrictEq(action, "ON") /\ Truthy(duration)

\* Mutant: clearTimeout has no effect
ClearTimeout_Noop(ts, k) == ts

\* clearTimeout(t): a pending Timeout is cancelled, any other is left as it is
ClearTimeout(ts, k) ==
    IF k \in DOMAIN ts /\ ts[k].status = "pending"
    THEN [ts EXCEPT ![k].status = "cancelled"]
    ELSE ts

\* Mutant: the new timer is set without clearing the one registered
ClearExisting_Skipped(ts, reg) == ts

\* lines 234-235: if (pumpTimers.has(NODE_ID)) clearTimeout(pumpTimers.get(NODE_ID))
ClearExisting(ts, reg) ==
    IF NODE_ID \in DOMAIN reg THEN ClearTimeout(ts, reg[NODE_ID]) ELSE ts

Deadline(t) == t.start + t.delay
Pending(ts) == {k \in DOMAIN ts : ts[k].status = "pending"}

EmptyMap == [k \in {} |-> 0]
NoResponse == [status |-> 0, error |-> "", success |-> FALSE, command |-> ""]
InvalidAction == [status |-> 400, error |-> "Invalid action", success |-> FALSE, command |-> ""]
Success(cmd) == [status |-> 200, error |-> "", success |-> TRUE, command |-> cmd]

\* app.post("/api/pump"), lines 221-249 (555-588, 814-847)
PumpCmd(action, duration) ==
    /\ alive
    /\ Idle
    /\ ncmd < MaxCmds
    /\ ncmd' = ncmd + 1
    /\ LET cmd == MqttPayload(action)
       IN  IF cmd = ""
           THEN /\ resp' = InvalidAction
                /\ UNCHANGED <<timers, pumpTimers, published>>
           ELSE /\ published' = Append(published, PublishCall(cmd, 1, 0, now))
                /\ IF SchedulesTimer(action, duration)
                   THEN /\ timers' = Append(ClearExisting(timers, pumpTimers),
                                            [start |-> now,
                                             delay |-> TimeoutDelay(duration),
                                             status |-> "pending"])
                        /\ pumpTimers' = [k \in {NODE_ID} |-> Len(timers) + 1]
                   ELSE UNCHANGED <<timers, pumpTimers>>
                /\ resp' = Success(cmd)
    /\ UNCHANGED procVars
    /\ UNCHANGED ingestVars

\* The callback given to setTimeout, lines 238-241: it runs when the Timeout
\* is due, publishes "PUMP_OFF" and deletes the registry entry of the device.
TimerFire(k) ==
    /\ alive
    /\ Idle
    /\ k \in Pending(timers)
    /\ \A j \in Pending(timers) : Deadline(timers[k]) <= Deadline(timers[j])
    /\ now' = Max(now, Deadline(timers[k]))
    /\ published' = Append(published, PublishCall("PUMP_OFF", 0, k, now'))
    /\ pumpTimers' = EmptyMap
    /\ timers' = [timers EXCEPT ![k].status = "fired"]
    /\ UNCHANGED <<variant, alive, closing, link, resp, ncmd>>
    /\ UNCHANGED ingestVars

\* Time passes, never beyond the deadline of a pending Timeout
Elapse ==
    /\ alive
    /\ Idle
    /\ now + ElapseStep <= MaxTicks * ElapseStep
    /\ \A k \in Pending(timers) : now + ElapseStep <= Deadline(timers[k])
    /\ now' = now + ElapseStep
    /\ UNCHANGED <<variant, alive, closing, link>>
    /\ UNCHANGED pumpVars
    /\ UNCHANGED ingestVars

-----------------------------------------------------------------------------
(* The broker link and the process *)

\* the client loses the broker and reconnects by itself (lines 110-114, 401-403)
Disconnect ==
    /\ alive
    /\ Idle
    /\ link = "connected"
    /\ link' = "offline"
    /\ UNCHANGED <<variant, alive, closing, now>>
    /\ UNCHANGED pumpVars
    /\ UNCHANGED ingestVars

Reconnect ==
    /\ alive
    /\ Idle
    /\ link = "offline"
    /\ link' = "connected"
    /\ UNCHANGED <<variant, alive, closing, now>>
    /\ UNCHANGED pumpVars
    /\ UNCHANGED ingestVars

\* pumpTimers.forEach((t) => clearTimeout(t)), line 275
ClearAll(ts, reg) ==
    IF NODE_ID \in DOMAIN reg THEN ClearTimeout(ts, reg[NODE_ID]) ELSE ts

\* SIGINT or SIGTERM.  Revision 1 runs gracefulShutdown (lines 269-286): the
\* client is ended, the registered timers cleared, and the process exits once
\* the HTTP server and the store connection have closed.  Revisions 2 and 3
\* install no handler: the signal ends the process.
Signal ==
    /\ alive
    /\ Idle
    /\ IF variant = 1
       THEN /\ link' = "ended"
            /\ timers' = ClearAll(timers, pumpTimers)
            /\ closing' = TRUE
            /\ UNCHANGED alive
       ELSE /\ alive' = FALSE
            /\ UNCHANGED <<link, timers, closing>>
    /\ UNCHANGED <<variant, now, pumpTimers, published, resp, ncmd>>
    /\ UNCHANGED ingestVars

\* httpServer.close callback, then mongoose close, then process.exit(0): lines 277-282
Exit ==
    /\ alive
    /\ Idle
    /\ closing
    /\ alive' = FALSE
    /\ UNCHANGED <<variant, closing, link, now>>
    /\ UNCHANGED pumpVars
    /\ UNCHANGED ingestVars

-----------------------------------------------------------------------------
(* Telemetry validation: TelemetrySchema of the running revision *)

\* z.number(), with .min(lo) and .max(hi) where the schema has them
ZNumber(v) == v.t = "number"
ZNumberMin(v, lo) == v.t = "number" /\ v.n >= lo
ZNumberRange(v, lo, hi) == v.t = "number" /\ v.n >= lo /\ v.n <= hi

\* s_raw, s_pct, hum, life: lines 45-46, 49, 52; 332-333, 336, 339; 635-636, 639, 642
SRawOk(v) == IF variant = 1 THEN ZNumberRange(v, 0, 1024) ELSE ZNumber(v)
SPctOk(v) == IF variant = 1 THEN ZNumberRange(v, 0, 100) ELSE ZNumber(v)
HumOk(v) == IF variant = 1 THEN ZNumberRange(v, 0, 100) ELSE ZNumber(v)
\* Mutant: life is declared optional
LifeOk_Optional(v) == v.t \in {"number", "undefined"}
LifeOk(v) == IF variant = 1 THEN ZNumberMin(v, 0) ELSE ZNumber(v)

\* s_temp, a_temp: z.number().catch(0) in revision 1 (lines 47-48) accepts
\* anything; z.number().optional().default(0) in revisions 2 and 3 (lines
\* 334-335, 637-638) accepts a number or an absent field only.
TempOk(v) == IF variant = 1 THEN TRUE ELSE v.t \in {"number", "undefined"}
TempVal(v) == IF v.t = "number" THEN v.n ELSE 0

\* pump, man: z.boolean().or(z.number()) in revisions 1 and 3 (lines 50-51,
\* 640-641); boolish in revision 2 (lines 325-329, 337-338)
BoolishOk(v) ==
    IF variant = 2
    THEN v.t \in {"boolean", "number", "string"}
    ELSE v.t \in {"boolean", "number"}

\* the value the schema hands on: revision 2 transforms it to a boolean
BoolishVal(v) ==
    IF variant = 2
    THEN CASE v.t = "boolean" -> v
           [] v.t = "number" -> JBool(v.n = 1)
           [] v.t = "string" -> JBool(v.s = "1" \/ v.s = "true")
    ELSE v

\* TelemetrySchema.parse(raw) does not throw
SchemaAccepts(raw) ==
    /\ SRawOk(raw.s_raw)
    /\ SPctOk(raw.s_pct)
    /\ TempOk(raw.s_temp)
    /\ TempOk(raw.a_temp)
    /\ HumOk(raw.hum)
    /\ BoolishOk(raw.pump)
    /\ BoolishOk(raw.man)
    /\ LifeOk(raw.life)

\* JSON.parse(message.toString()) and TelemetrySchema.parse both succeed:
\* the message is JSON text, its value is an object, the object fits the schema
Accepted(m) == m.kind = "object" /\ SchemaAccepts(m.body)

\* cleanData, lines 125-136 (412-422, 722-733).  `id' is the identity of the
\* object, one per invocation; revision 2 gives the record no nodeId.
CleanData(raw, n, t) ==
    [id |-> n,
     nodeId |-> IF variant = 2 THEN "" ELSE NODE_ID,
     soil_raw |-> raw.s_raw.n,
     soil_pct |-> raw.s_pct.n,
     soil_temp |-> TempVal(raw.s_temp),
     air_temp |-> TempVal(raw.a_temp),
     humidity |-> raw.hum.n,
     pump_on |-> Truthy(BoolishVal(raw.pump)),
     manual |-> Truthy(BoolishVal(raw.man)),
     pump_life |-> raw.life.n,
     timestamp |-> t]

\* toFrontendPayload, lines 691-701
toFrontendPayload(d) ==
    [s_raw |-> d.soil_raw, s_pct |-> d.soil_pct, s_temp |-> d.soil_temp,
     a_temp |-> d.air_temp, hum |-> d.humidity, pump |-> d.pump_on,
     man |-> d.manual, life |-> d.pump_life, timestamp |-> d.timestamp]

\* io.emit(event, payload), lines 142, 429, 737: what invocation n broadcasts
EmitCall(n, d) ==
    [msg |-> n,
     event |-> IF variant = 1 THEN "farm_data_update" ELSE "telemetry:update",
     payload |-> IF variant = 3 THEN toFrontendPayload(d)
                 ELSE [k \in DOMAIN d \ {"id", "nodeId"} |-> d[k]]]

\* the document given to TelemetryModel.create, lines 145-149 (431-434, 739-743)
Document(n, d) ==
    [msg |-> n,
     metadata |-> [nodeId |-> NODE_ID],
     timestamp |-> d.timestamp,
     fields |-> [k \in DOMAIN d \ {"id", "nodeId", "timestamp"} |-> d[k]]]

-----------------------------------------------------------------------------
(* Inbound messages *)

\* The payload of the spec's end-to-end example, both temperatures absent
BasePayload ==
    [s_raw |-> JNum(500), s_pct |-> JNum(50), s_temp |-> JMissing,
     a_temp |-> JMissing, hum |-> JNum(60), pump |-> JNum(1), man |-> JNum(0),
     life |-> JNum(120)]

Fields == {"s_raw", "s_pct", "s_temp", "a_temp", "hum", "pump", "man", "life"}

\* The values tried for each field, one field at a time
Variations(f) ==
    CASE f = "s_raw" -> {JMissing, JStr("500"), JNum(1025)}
      [] f = "s_pct" -> {JMissing, JNum(150)}
      [] f = "hum" -> {JMissing, JNum(-1)}
      [] f = "life" -> {JMissing, JNum(-1)}
      [] f = "s_temp" -> {JNum(21), JStr("err"), JNull}
      [] f = "a_temp" -> {JNum(25), JStr("err")}
      [] f = "pump" -> {JMissing, JNull, JBool(TRUE), JBool(FALSE), JNum(0), JNum(2),
                        JStr("1"), JStr("true"), JStr("on")}
      [] f = "man" -> {JMissing, JNull, JBool(TRUE), JNum(1), JStr("true")}

Payloads ==
    {BasePayload} \cup
    UNION {{[BasePayload EXCEPT ![f] = v] : v \in Variations(f)} : f \in Fields}

\* A message is text that is not JSON ("garbage"), JSON that is no object
\* ("value"), or a JSON object
Messages ==
    {[kind |-> "garbage", body |-> BasePayload], [kind |-> "value", body |-> BasePayload]}
    \cup {[kind |-> "object", body |-> b] : b \in Payloads}

\* The messages the pipeline is run on: the two that are no JSON object, the
\* base payload, and one variation of each kind the handler tells apart
PipelinePayloads ==
    {BasePayload,
     [BasePayload EXCEPT !.s_temp = JNum(21)],
     [BasePayload EXCEPT !.s_raw = JMissing],
     [BasePayload EXCEPT !.s_pct = JMissing],
     [BasePayload EXCEPT !.hum = JMissing],
     [BasePayload EXCEPT !.life = JMissing],
     [BasePayload EXCEPT !.s_pct = JNum(150)],
     [BasePayload EXCEPT !.pump = JNull],
     [BasePayload EXCEPT !.man = JNull],
     [BasePayload EXCEPT !.pump = JStr("on")]}

PipelineMessages == {m \in Messages : m.kind # "object" \/ m.body \in PipelinePayloads}

Topics == {TOPIC_DATA, "farm/node1/other"}

-----------------------------------------------------------------------------
(* The "message" handler, lines 116-153 (405-438, 717-747) *)

Invocation(pos, local) == [pos |-> pos, clean |-> local]

\* the statement an invocation is about to run
ReadyToCache(h) == h.pos = "VALIDATED"
ReadyToEmit(h) == h.pos = "CACHED"
\* Mutant: the create is placed before the emit
ReadyToPersist_Early(h) == h.pos \in {"CACHED", "BROADCAST"}
ReadyToPersist(h) == h.pos = "BROADCAST"

\* The transport delivers a message: the handler starts, parses and validates.
\* Revision 2 returns at once for another topic (line 406).  A parse or schema
\* failure is caught at line 150 and logged.
OnMessage(topic, m) ==
    /\ alive
    /\ Idle
    /\ link = "connected"
    /\ Len(handlers) < MaxMsgs
    /\ LET n == Len(handlers) + 1
       IN  IF variant = 2 /\ topic # TOPIC_DATA
           THEN /\ handlers' = Append(handlers, Invocation("IGNORED", <<>>))
                /\ UNCHANGED warned
           ELSE IF Accepted(m)
           THEN /\ handlers' = Append(handlers,
                                      Invocation("VALIDATED", <<CleanData(m.body, n, now)>>))
                /\ UNCHANGED warned
           ELSE /\ handlers' = Append(handlers, Invocation("REJECTED", <<>>))
                /\ warned' = Append(warned, [msg |-> n, why |-> "invalid"])
    /\ UNCHANGED <<lastKnownState, emitted, history>>
    /\ UNCHANGED sockets
    /\ UNCHANGED procVars
    /\ UNCHANGED pumpVars

\* lastKnownState = cleanData, line 139 (424, 735)
CacheUpdate(n) ==
    /\ alive
    /\ n \in DOMAIN handlers
    /\ ReadyToCache(handlers[n])
    /\ lastKnownState' = handlers[n].clean
    /\ handlers' = [handlers EXCEPT ![n].pos = "CACHED"]
    /\ UNCHANGED <<emitted, history, warned>>
    /\ UNCHANGED sockets
    /\ UNCHANGED procVars
    /\ UNCHANGED pumpVars

\* io.emit(...), line 142 (429, 737)
Broadcast(n) ==
    /\ alive
    /\ n \in DOMAIN handlers
    /\ ReadyToEmit(handlers[n])
    /\ emitted' = Append(emitted, EmitCall(n, handlers[n].clean[1]))
    /\ handlers' = [handlers EXCEPT ![n].pos = "BROADCAST"]
    /\ UNCHANGED <<lastKnownState, history, warned>>
    /\ UNCHANGED sockets
    /\ UNCHANGED procVars
    /\ UNCHANGED pumpVars

\* io.emit throws: control passes to the catch of line 150, which logs; the
\* statements after the emit, the create among them, are skipped.
BroadcastThrows(n) ==
    /\ alive
    /\ n \in DOMAIN handlers
    /\ ReadyToEmit(handlers[n])
    /\ warned' = Append(warned, [msg |-> n, why |-> "emit"])
    /\ handlers' = [handlers EXCEPT ![n].pos = "EMIT_FAILED"]
    /\ UNCHANGED <<lastKnownState, emitted, history>>
    /\ UNCHANGED sockets
    /\ UNCHANGED procVars
    /\ UNCHANGED pumpVars

\* await TelemetryModel.create(...), line 145 (431, 739): the write is issued
\* and the invocation is suspended
Persist(n) ==
    /\ alive
    /\ n \in DOMAIN handlers
    /\ ReadyToPersist(handlers[n])
    /\ handlers' = [handlers EXCEPT ![n].pos = "AWAITING"]
    /\ UNCHANGED <<lastKnownState, emitted, history, warned>>
    /\ UNCHANGED sockets
    /\ UNCHANGED procVars
    /\ UNCHANGED pumpVars

\* the store commits the document and the promise resolves: the handler ends
WriteOk(n) ==
    /\ alive
    /\ Idle
    /\ n \in DOMAIN handlers
    /\ handlers[n].pos = "AWAITING"
    /\ history' = Append(history, Document(n, handlers[n].clean[1]))
    /\ handlers' = [handlers EXCEPT ![n].pos = "PERSISTED"]
    /\ UNCHANGED <<lastKnownState, emitted, warned>>
    /\ UNCHANGED sockets
    /\ UNCHANGED procVars
    /\ UNCHANGED pumpVars

\* Mutant: the await is outside the try: the rejection is unhandled and the
\* process exits (line 258-262)
WriteFail_Unhandled(n) ==
    /\ alive
    /\ Idle
    /\ n \in DOMAIN handlers
    /\ handlers[n].pos = "AWAITING"
    /\ warned' = Append(warned, [msg |-> n, why |-> "persist"])
    /\ handlers' = [handlers EXCEPT ![n].pos = "FAILED"]
    /\ alive' = FALSE
    /\ UNCHANGED <<lastKnownState, emitted, history>>
    /\ UNCHANGED sockets
    /\ UNCHANGED <<variant, closing, link, now>>
    /\ UNCHANGED pumpVars

\* the write fails and the promise rejects: the await throws into the catch of
\* line 150, which logs
WriteFail(n) ==
    /\ alive
    /\ Idle
    /\ n \in DOMAIN handlers
    /\ handlers[n].pos = "AWAITING"
    /\ warned' = Append(warned, [msg |-> n, why |-> "persist"])
    /\ handlers' = [handlers EXCEPT ![n].pos = "FAILED"]
    /\ UNCHANGED <<lastKnownState, emitted, history>>
    /\ UNCHANGED sockets
    /\ UNCHANGED procVars
    /\ UNCHANGED pumpVars

-----------------------------------------------------------------------------
(* Viewers: io.on("connection"), lines 169-173 (773-779); revision 2 has the
   handler commented out (lines 470-476) *)

\* socket.emit(event, payload), lines 171, 777: the catch-up push built from
\* the cached record d
SocketEmit(d) ==
    [msg |-> d.id,
     event |-> IF variant = 1 THEN "initial_data" ELSE "telemetry:init",
     payload |-> IF variant = 3 THEN toFrontendPayload(d)
                 ELSE [k \in DOMAIN d \ {"id"} |-> d[k]]]

\* what the connection handler sends the new socket: `if (lastKnownState)
\* socket.emit(...)' in revisions 1 and 3, nothing in revision 2
CatchUp(cache) ==
    IF variant = 2 \/ cache = <<>> THEN <<>> ELSE <<SocketEmit(cache[1])>>

\* A viewer connects.  httpServer.close() (line 277) ends the listening, so
\* no viewer connects once gracefulShutdown has run.
Connect ==
    /\ alive
    /\ Idle
    /\ ~closing
    /\ Len(sockets) < MaxViewers
    /\ sockets' = Append(sockets, [since |-> Len(emitted),
                                   init |-> CatchUp(lastKnownState)])
    /\ UNCHANGED <<handlers, lastKnownState, emitted, history, warned>>
    /\ UNCHANGED procVars
    /\ UNCHANGED pumpVars

-----------------------------------------------------------------------------
(* The state once module initialisation is over and the server listens.  Of
   the HTTP routes only /api/pump is modelled; revision 1's /api/history
   route (lines 190-202) names asyncHandler and Telemetry, which the file
   does not define. *)

Init ==
    /\ variant \in {1, 2, 3}
    /\ alive = TRUE
    /\ closing = FALSE
    /\ link = "connected"
    /\ now = 0
    /\ timers = <<>>
    /\ pumpTimers = EmptyMap
    /\ published = <<>>
    /\ resp = NoResponse
    /\ ncmd = 0
    /\ handlers = <<>>
    /\ lastKnownState = <<>>
    /\ emitted = <<>>
    /\ history = <<>>
    /\ warned = <<>>
    /\ sockets = <<>>

NextPump ==
    \/ \E a \in Actions, d \in Durations : PumpCmd(a, d)
    \/ \E k \in DOMAIN timers : TimerFire(k)
    \/ Elapse
    \/ Disconnect
    \/ Reconnect
    \/ Signal
    \/ Exit

SpecPump == Init /\ [][NextPump]_vars

NextIngest ==
    \/ \E t \in Topics, m \in PipelineMessages : OnMessage(t, m)
    \/ \E n \in DOMAIN handlers : CacheUpdate(n)
    \/ \E n \in DOMAIN handlers : Broadcast(n)
    \/ \E n \in DOMAIN handlers : BroadcastThrows(n)
    \/ \E n \in DOMAIN handlers : Persist(n)
    \/ \E n \in DOMAIN handlers : WriteOk(n)
    \/ \E n \in DOMAIN handlers : WriteFail(n)
    \/ Signal
    \/ Exit

SpecIngest == Init /\ [][NextIngest]_vars

\* The ingestion handler with viewers connecting between its invocations
\* and a command now and then, run on one valid and one invalid message
ViewerMessages ==
    {m \in PipelineMessages : m.kind = "garbage" \/ (m.kind = "object" /\ m.body = BasePayload)}

NextViewers ==
    \/ \E m \in ViewerMessages : OnMessage(TOPIC_DATA, m)
    \/ \E n \in DOMAIN handlers : CacheUpdate(n)
    \/ \E n \in DOMAIN handlers : Broadcast(n)
    \/ \E n \in DOMAIN handlers : BroadcastThrows(n)
    \/ \E n \in DOMAIN handlers : Persist(n)
    \/ \E n \in DOMAIN handlers : WriteOk(n)
    \/ \E n \in DOMAIN handlers : WriteFail(n)
    \/ Connect
    \/ PumpCmd(JStr("OFF"), JMissing)

SpecViewers == Init /\ [][NextViewers]_vars

\* The handler run on one message drawn from all of Messages: what the schema
\* and the record construction make of each input
NextValidate ==
    \/ \E m \in Messages : handlers = <<>> /\ OnMessage(TOPIC_DATA, m)
    \/ \E n \in DOMAIN handlers : CacheUpdate(n)
    \/ \E n \in DOMAIN handlers : Broadcast(n)
    \/ \E n \in DOMAIN handlers : Persist(n)
    \/ \E n \in DOMAIN handlers : WriteOk(n)

SpecValidate == Init /\ [][NextValidate]_vars

\* The whole server.  The pump endpoint and the ingestion handler share only
\* the process, the client and the clock; SpecPump and SpecIngest explore
\* each half with the other at rest.
Next == NextPump \/ NextIngest \/ NextViewers \/ NextValidate
Spec == Init /\ [][Next]_vars

-----------------------------------------------------------------------------
(* The pump endpoint and its timers: properties *)

OnAction == JStr("ON")
OffActions == {JStr("OFF"), JStr("AUTO")}
ValidActions == {JStr("ON"), JStr("OFF"), JStr("AUTO")}
PositiveDurations == {d \in Durations : d.t = "number" /\ d.n > 0}
TimerCalls == {i \in DOMAIN published : published[i].by > 0}
CallsBy(k) == {i \in DOMAIN published : published[i].by = k}

\* C1 (as the spec states it): an OFF or AUTO command cancels the pending
\* auto-off timer of the device, so that right after the command no timer is
\* pending and none can fire later.
C1_OffAutoCancelsTimer ==
    [][\A a \in OffActions, d \in Durations :
          PumpCmd(a, d) => Pending(timers') = {}]_vars

\* C2: in every reachable state at most one auto-off timer is pending
\* (scheduled, neither fired nor cancelled) for the device.
C2_AtMostOnePending == Cardinality(Pending(timers)) <= 1

\* C2 witness: a second ON with a duration arrived while a timer was pending:
\* the first is cancelled and the second is pending.
C2_Witness ==
    \E j, k \in DOMAIN timers :
        j < k /\ timers[j].status = "cancelled" /\ timers[k].status = "pending"
              /\ ~closing

\* What a timer has published, by its status: nothing while pending or once
\* cancelled, exactly one "PUMP_OFF" at its deadline once fired.
C3_TimerLog ==
    \A k \in DOMAIN timers :
        IF timers[k].status = "fired"
        THEN /\ Cardinality(CallsBy(k)) = 1
             /\ \A i \in CallsBy(k) :
                    /\ published[i].payload = "PUMP_OFF"
                    /\ published[i].at = timers[k].start + timers[k].delay
        ELSE CallsBy(k) = {}

\* An ON with a positive duration that finds a timer pending cancels it and
\* leaves one pending timer, due min(duration, 3600) seconds from now.
C3_Replaces ==
    \A d \in PositiveDurations :
        (PumpCmd(OnAction, d) /\ Pending(timers) # {}) =>
            /\ \A k \in Pending(timers) : timers'[k].status = "cancelled"
            /\ Pending(timers') = {Len(timers')}
            /\ timers'[Len(timers')].start = now
            /\ Deadline(timers'[Len(timers')]) = now + Min(d.n, 3600) * 1000

\* C3: timer replacement.  ON(d1 > 0) followed, before its timer fires, by
\* ON(d2 > 0): the first timer is cancelled and never publishes; the only
\* timer-originated "PUMP_OFF" of the pair is the second timer's, published
\* min(d2, 3600) seconds after the second command; a cancelled timer never
\* becomes pending or fired again.
C3_TimerReplacement ==
    /\ []C3_TimerLog
    /\ [][C3_Replaces]_vars
    /\ [][\A k \in DOMAIN timers :
            timers[k].status = "cancelled" => timers'[k].status = "cancelled"]_vars

\* C3 witness: the first timer was replaced, the second has fired, and the
\* publish log holds exactly one timer-originated message.
C3_Witness ==
    /\ Len(timers) = 2
    /\ timers[1].status = "cancelled"
    /\ timers[2].status = "fired"
    /\ timers[2].start > 0
    /\ timers[2].start < Deadline(timers[1])
    /\ Cardinality(TimerCalls) = 1

\* C4: timer cap.  Every ON command with a positive duration schedules its
\* timer at exactly min(duration, 3600) seconds, and no timer ever has a
\* delay above 3600 seconds.
C4_TimerCap ==
    /\ [](\A k \in DOMAIN timers : timers[k].delay <= 3600 * 1000)
    /\ [][\A d \in PositiveDurations :
            PumpCmd(OnAction, d) =>
                timers'[Len(timers')].delay = Min(d.n, 3600) * 1000]_vars

\* C4 witness: a duration above the cap was requested and its timer is
\* pending with a delay of 3600 s.
C4_Witness ==
    \E k \in Pending(timers) : timers[k].delay = 3600 * 1000

\* C5: a command whose action is not ON, OFF or AUTO (a missing action too)
\* answers with the InvalidAction failure, publishes nothing and leaves the
\* timers and the registry as they were, whatever the duration.
C5_InvalidAction ==
    [][\A a \in Actions \ ValidActions, d \in Durations :
          PumpCmd(a, d) =>
              /\ resp'.status = 400
              /\ resp'.error = "Invalid action"
              /\ published' = published
              /\ timers' = timers
              /\ pumpTimers' = pumpTimers]_vars

\* C5 witness: an invalid command was answered while a timer was pending.
C5_Witness ==
    /\ resp.status = 400
    /\ Pending(timers) # {}
    /\ NODE_ID \in DOMAIN pumpTimers

ExpectedCommand(a) ==
    CASE a = JStr("ON") -> "PUMP_ON"
      [] a = JStr("OFF") -> "PUMP_OFF"
      [] a = JStr("AUTO") -> "AUTO"

\* C6: a command with a valid action makes exactly one publish on the command
\* topic, "PUMP_ON" for ON, "PUMP_OFF" for OFF, "AUTO" for AUTO, and answers
\* success with that same string.
C6_OnePublishPerCommand ==
    [][\A a \in ValidActions, d \in Durations :
          PumpCmd(a, d) =>
              /\ Len(published') = Len(published) + 1
              /\ SubSeq(published', 1, Len(published)) = published
              /\ published'[Len(published')].topic = "farm/node1/cmd"
              /\ published'[Len(published')].payload = ExpectedCommand(a)
              /\ published'[Len(published')].by = 0
              /\ resp'.status = 200
              /\ resp'.success
              /\ resp'.command = ExpectedCommand(a)]_vars

\* C6 witness: the three commands were issued and each published its string.
C6_Witness ==
    /\ Len(published) = 3
    /\ {published[i].payload : i \in DOMAIN published} = {"PUMP_ON", "PUMP_OFF", "AUTO"}
    /\ \A i \in DOMAIN published : published[i].by = 0
    /\ resp.status = 200

-----------------------------------------------------------------------------
(* The ingestion pipeline: properties *)

EmitsOf(n) == {i \in DOMAIN emitted : emitted[i].msg = n}
DocsOf(n) == {i \in DOMAIN history : history[i].msg = n}
CachedId == IF lastKnownState = <<>> THEN 0 ELSE lastKnownState[1].id
Logged(n, why) == \E i \in DOMAIN warned : warned[i] = [msg |-> n, why |-> why]
RequiredFields == {"s_raw", "s_pct", "hum", "life"}

\* The messages of claim C7: text that does not parse as a JSON object, a
\* payload without one of the required fields, a pump or man that is null or
\* absent.
C7_Inputs ==
    {m \in PipelineMessages :
        \/ m.kind \in {"garbage", "value"}
        \/ /\ m.kind = "object"
           /\ \/ \E f \in RequiredFields : m.body[f].t = "undefined"
              \/ m.body.pump.t \in {"null", "undefined"}
              \/ m.body.man.t \in {"null", "undefined"}}

\* C7: a message that does not parse, lacks s_raw, s_pct, hum or life, or has
\* a pump/man of an unrecognised type ends REJECTED: the cache is unchanged,
\* nothing is broadcast and nothing is written to history, then or later.
C7_RejectionNoSideEffects ==
    /\ [][\A m \in C7_Inputs :
            OnMessage(TOPIC_DATA, m) =>
                /\ handlers'[Len(handlers')].pos = "REJECTED"
                /\ lastKnownState' = lastKnownState
                /\ emitted' = emitted
                /\ history' = history]_vars
    /\ [](\A n \in DOMAIN handlers :
            handlers[n].pos = "REJECTED" =>
                /\ CachedId # n
                /\ EmitsOf(n) = {}
                /\ DocsOf(n) = {})
    /\ [][\A n \in DOMAIN handlers :
            handlers[n].pos = "REJECTED" => handlers'[n].pos = "REJECTED"]_vars

\* C7 witness: a message was rejected after an earlier one had been cached,
\* broadcast and persisted, and the cache still holds the earlier record.
C7_Witness ==
    /\ Len(handlers) = 2
    /\ handlers[1].pos = "PERSISTED"
    /\ handlers[2].pos = "REJECTED"
    /\ CachedId = 1
    /\ Len(emitted) = 1
    /\ Len(history) = 1
    /\ Logged(2, "invalid")

\* What an invocation has done, by its position in the handler
C8_Stages ==
    \A n \in DOMAIN handlers :
        LET h == handlers[n]
        IN  CASE h.pos \in {"IGNORED", "REJECTED", "VALIDATED"} ->
                    CachedId # n /\ EmitsOf(n) = {} /\ DocsOf(n) = {}
              [] h.pos = "CACHED" ->
                    lastKnownState = h.clean /\ EmitsOf(n) = {} /\ DocsOf(n) = {}
              [] h.pos = "EMIT_FAILED" ->
                    CachedId >= n /\ EmitsOf(n) = {} /\ DocsOf(n) = {}
              [] h.pos \in {"BROADCAST", "AWAITING", "FAILED"} ->
                    CachedId >= n /\ Cardinality(EmitsOf(n)) = 1 /\ DocsOf(n) = {}
              [] h.pos = "PERSISTED" ->
                    /\ CachedId >= n
                    /\ Cardinality(EmitsOf(n)) = 1
                    /\ Cardinality(DocsOf(n)) = 1
                    /\ \A i \in DocsOf(n) : history[i].fields.soil_raw = h.clean[1].soil_raw

C8_Edges ==
    {<<"VALIDATED", "CACHED">>, <<"CACHED", "BROADCAST">>, <<"CACHED", "EMIT_FAILED">>,
     <<"BROADCAST", "AWAITING">>, <<"AWAITING", "PERSISTED">>, <<"AWAITING", "FAILED">>}

\* An invocation moves only along the pipeline, and the cache changes only in
\* the step that takes an invocation from VALIDATED to CACHED.
C8_Order ==
    /\ \A n \in DOMAIN handlers :
          handlers'[n].pos # handlers[n].pos =>
              <<handlers[n].pos, handlers'[n].pos>> \in C8_Edges
    /\ lastKnownState' # lastKnownState =>
          \E n \in DOMAIN handlers :
              /\ handlers[n].pos = "VALIDATED"
              /\ handlers'[n].pos = "CACHED"
              /\ lastKnownState' = handlers[n].clean

Ended(n) == handlers[n].pos \in {"IGNORED", "REJECTED", "EMIT_FAILED", "PERSISTED", "FAILED"}
WriteIssued(n) == handlers[n].pos \in {"AWAITING", "PERSISTED", "FAILED"}

\* C9 (as the spec states it): when the broadcast of a valid record fails, the
\* failure is logged and the record is still written to history: no invocation
\* ends after a broadcast failure without having issued its write.
C9_BroadcastFailureStillPersists ==
    \A n \in DOMAIN handlers :
        (Ended(n) /\ Logged(n, "emit")) => WriteIssued(n)

-----------------------------------------------------------------------------
(* The cache and the viewers: properties *)

\* the invocations whose message was valid, and those that have run the
\* assignment of line 139
ValidDelivered == {n \in DOMAIN handlers : handlers[n].pos \notin {"IGNORED", "REJECTED"}}
CacheAssigned == {n \in ValidDelivered : handlers[n].pos # "VALIDATED"}
Last(S) == IF S = {} THEN 0 ELSE CHOOSE n \in S : \A k \in S : k <= n

\* C11: cache freshness.  The cache holds the record of the last valid
\* message whose handler has run its cache assignment, and is empty iff there
\* is none; between handler runs that is the last valid message delivered,
\* whatever was rejected, is pending or has failed in the store, and whatever
\* viewers connected or commands were issued; the cache never goes back to
\* the record of an earlier message.
C11_CacheFreshness ==
    /\ [](/\ CachedId = Last(CacheAssigned)
          /\ (lastKnownState = <<>>) = (CacheAssigned = {})
          /\ CachedId > 0 => lastKnownState = handlers[CachedId].clean
          /\ Idle => CachedId = Last(ValidDelivered))
    /\ [][CachedId' >= CachedId]_vars

\* C11 witness: the write of the first message failed, the write of the
\* second is pending, the third was rejected, a viewer connected and a
\* command was issued; the cache holds the second record.
C11_Witness ==
    /\ Len(handlers) = 3
    /\ handlers[1].pos = "FAILED"
    /\ handlers[2].pos = "AWAITING"
    /\ handlers[3].pos = "REJECTED"
    /\ CachedId = 2
    /\ Len(sockets) >= 1
    /\ ncmd >= 1

\* C12 (as the spec states it): a viewer that connects while the cache holds
\* a record is sent exactly one catch-up push, carrying that record, and no
\* other viewer is sent anything by the connection; a viewer that connects
\* while the cache is empty is sent no catch-up push.
C12_CatchUpPush ==
    [][Connect =>
          LET s == sockets'[Len(sockets')]
          IN  /\ SubSeq(sockets', 1, Len(sockets)) = sockets
              /\ emitted' = emitted
              /\ IF lastKnownState = <<>>
                 THEN s.init = <<>>
                 ELSE /\ Len(s.init) = 1
                      /\ s.init[1].msg = lastKnownState[1].id
                      /\ s.init[1].payload.timestamp = lastKnownState[1].timestamp]_vars

-----------------------------------------------------------------------------
(* Shutdown, the broker link and the timer condition: properties *)

C14_TransportUnavailable ==
    [][\A a \in ValidActions, d \in Durations :
          (PumpCmd(a, d) /\ link # "connected") =>
              /\ resp'.status # 200
              /\ ~resp'.success
              /\ timers' = timers
              /\ pumpTimers' = pumpTimers]_vars

\* C20 (as the spec states it): an ON command whose duration is not a
\* positive number (zero, negative, not a number, absent) creates no timer
\* and leaves the registry as it was, so that no timer-originated "PUMP_OFF"
\* follows from it.
C20_TimerOnlyForPositiveDuration ==
    [][\A d \in Durations \ PositiveDurations :
          PumpCmd(OnAction, d) =>
              /\ timers' = timers
              /\ pumpTimers' = pumpTimers]_vars

-----------------------------------------------------------------------------
(* Validation and the record: properties *)

\* the object messages whose fields other than those of F are the base ones
VaryingOnly(F) ==
    {m \in Messages :
        m.kind = "object" /\ \A f \in Fields \ F : m.body[f] = BasePayload[f]}

\* the flag claim C15 gives a value of pump or man: true for true, 1, "1" and
\* "true", false for false and every other number
C15_Flag(v) ==
    CASE v.t = "boolean" -> v.b
      [] v.t = "number" -> v.n = 1
      [] v.t = "string" -> v.s \in {"1", "true"}
      [] OTHER -> FALSE

\* the values claim C15 speaks of, and those of them it says are accepted
C15_Values == {v \in Variations("pump") \cup Variations("man") \cup {BasePayload.pump, BasePayload.man} :
                  v.t = "string" => v.s \in {"1", "true"}}
C15_Accepts(v) == v.t \in {"boolean", "number", "string"}

\* C15 (as the spec states it): with pump (man) one of true, 1, "1", "true"
\* the message is accepted and the flag of the record is true; with false, 0
\* or any number other than 1 it is accepted and the flag is false; with a
\* value of another type the whole message is rejected.
C15_BooleanCoercion ==
    [][\A m \in VaryingOnly({"pump", "man"}) :
          (/\ OnMessage(TOPIC_DATA, m)
           /\ m.body.pump \in C15_Values
           /\ m.body.man \in C15_Values) =>
              LET h == handlers'[Len(handlers')]
              IN  IF C15_Accepts(m.body.pump) /\ C15_Accepts(m.body.man)
                  THEN /\ h.pos = "VALIDATED"
                       /\ h.clean[1].pump_on = C15_Flag(m.body.pump)
                       /\ h.clean[1].manual = C15_Flag(m.body.man)
                  ELSE h.pos = "REJECTED"]_vars

\* C16 (as the spec states it): a payload whose required fields are valid and
\* whose s_temp (a_temp) is absent or not a number is accepted, and its
\* record has soil_temp = 0 (air_temp = 0); a temperature that is a number
\* is kept.
C16_TemperatureFallback ==
    [][\A m \in VaryingOnly({"s_temp", "a_temp"}) :
          OnMessage(TOPIC_DATA, m) =>
              LET h == handlers'[Len(handlers')]
              IN  /\ h.pos = "VALIDATED"
                  /\ h.clean[1].soil_temp =
                        (IF m.body.s_temp.t = "number" THEN m.body.s_temp.n ELSE 0)
                  /\ h.clean[1].air_temp =
                        (IF m.body.a_temp.t = "number" THEN m.body.a_temp.n ELSE 0)]_vars

\* the field constraints of a telemetry record
C19_FieldsOk(raw, pct, hum, life, pump, man) ==
    /\ raw >= 0 /\ raw <= 1024
    /\ pct >= 0 /\ pct <= 100
    /\ hum >= 0 /\ hum <= 100
    /\ life >= 0
    /\ pump \in BOOLEAN
    /\ man \in BOOLEAN

C19_RecordOk(d) ==
    C19_FieldsOk(d.soil_raw, d.soil_pct, d.humidity, d.pump_life, d.pump_on, d.manual)

\* C19 (as the spec states it): every record in the cache, every record
\* broadcast and every document of history has soil_raw in [0,1024], soil_pct
\* and humidity in [0,100], pump_life >= 0 and boolean pump_on and manual: a
\* payload out of range never produces a cached or persisted record.
C19_RecordValidity ==
    /\ \A i \in DOMAIN lastKnownState : C19_RecordOk(lastKnownState[i])
    /\ \A i \in DOMAIN emitted :
          LET p == emitted[i].payload
          IN  IF variant = 3
              THEN C19_FieldsOk(p.s_raw, p.s_pct, p.hum, p.life, p.pump, p.man)
              ELSE C19_RecordOk(p)
    /\ \A i \in DOMAIN history : C19_RecordOk(history[i].fields)

-----------------------------------------------------------------------------
(* Ordering of the pipeline: properties *)

\* the invocations between reception and the end of their persistence step
InPipeline == {n \in DOMAIN handlers :
                  handlers[n].pos \in {"VALIDATED", "CACHED", "BROADCAST", "AWAITING"}}

\* C17 (as the spec states it): the handler does not begin message n+1 until
\* message n has completed its persistence step: at no time are two messages
\* in the pipeline.
C17_NoOverlap == Cardinality(InPipeline) <= 1

\* C18 (as the spec states it): the documents of history are committed in
\* the order in which their messages were delivered: the record of a later
\* message is never committed before the record of an earlier one.
C18_HistoryOrder ==
    \A i, j \in DOMAIN history : i < j => history[i].msg < history[j].msg

-----------------------------------------------------------------------------
(* The timer registry: properties *)

C22_OnWithoutDurationKeepsTimer ==
    /\ [][(PumpCmd(OnAction, JMissing) /\ Pending(timers) # {}) =>
            /\ timers' = timers
            /\ pumpTimers' = pumpTimers
            /\ alive'
            /\ published'[Len(published')].payload = "PUMP_ON"
            /\ published'[Len(published')].by = 0]_vars
    /\ [][\A k \in DOMAIN timers :
            (timers[k].status = "pending" /\ timers'[k].status = "fired") =>
                /\ published' = Append(published,
                                       PublishCall("PUMP_OFF", 0, k, Deadline(timers[k])))
                /\ pumpTimers' = EmptyMap]_vars

\* C22 witness: ON with a duration, then ON with none while the timer was
\* pending; no second timer exists, and the first has fired at its deadline.
C22_Witness ==
    /\ Len(timers) = 1
    /\ timers[1].status = "fired"
    /\ timers[1].delay = 50 * 1000
    /\ Len(published) = 3
    /\ published[1].payload = "PUMP_ON"
    /\ published[2].payload = "PUMP_ON"
    /\ published[2].by = 0
    /\ published[3] = PublishCall("PUMP_OFF", 0, 1, Deadline(timers[1]))
    /\ ~closing

====
